---- MODULE Spec2Model ----
(***************************************************************************)
(* The GitHub Actions OIDC credential helper (githubactionsoidc.go).       *)
(*                                                                         *)
(* A Go string is modelled as a sequence of symbols.  A symbol is either   *)
(* one significant byte ("?", "&", " ", ":", "/", a control byte) or a run *)
(* of bytes that none of the string operations of the helper looks into    *)
(* ("http://host/token", "registry.example.com", "audience=").             *)
(***************************************************************************)
EXTENDS Integers, Sequences, FiniteSets, TLC

\* Longest ACTIONS_ID_TOKEN_REQUEST_URL value, in symbols.
MaxUrlLen == 2

\* http.StatusOK
StatusOK == 200

------------------------------------------------------------------------------
(* Values the environment and the token endpoint can take *)

Range(s) == {s[i] : i \in 1..Len(s)}

SeqsUpTo(S, n) == UNION {[1..k -> S] : k \in 0..n}

\* The symbols of a request URL: an absolute http URL prefix, the query
\* separator, and a control byte (which url.Parse rejects).
HttpBase == "http://host/token"
CtlByte == "\n"
UrlSymbols == {HttpBase, "?", CtlByte}

\* Runs of unreserved bytes (letters, digits, '-', '_', '.', '~').
UnreservedRuns == {"api", "https", "registry.example.com"}

UrlValues == SeqsUpTo(UrlSymbols, MaxUrlLen)

RequestTokenValues == {<<>>, <<"test-token">>}

AudienceValues ==
    { <<>>,
      <<"api">>,
      <<"https", ":", "/", "/", "registry.example.com">>,
      <<"api", " ", "&", "?">> }

EnvNames ==
    { "ACTIONS_ID_TOKEN_REQUEST_URL",
      "ACTIONS_ID_TOKEN_REQUEST_TOKEN",
      "ACTIONS_ID_TOKEN_REQUEST_AUDIENCE" }

\* A variable of the process environment is unset, or set to a string
\* (possibly the empty one).
Unset == [set |-> FALSE, val |-> <<>>]
Set(v) == [set |-> TRUE, val |-> v]

Environments ==
    { [n \in EnvNames |->
         CASE n = "ACTIONS_ID_TOKEN_REQUEST_URL" -> u
           [] n = "ACTIONS_ID_TOKEN_REQUEST_TOKEN" -> t
           [] OTHER -> a] :
      u \in {Unset} \cup {Set(v) : v \in UrlValues},
      t \in {Unset} \cup {Set(v) : v \in RequestTokenValues},
      a \in {Unset} \cup {Set(v) : v \in AudienceValues} }

\* Token strings an endpoint may issue.
TokenValues == {<<>>, <<"eyJ.test.token">>}

\* The value of a JSON object's "value" member: absent, null, a number or a
\* string.
JsonMembers ==
    {[t |-> "absent", s |-> <<>>], [t |-> "null", s |-> <<>>],
     [t |-> "number", s |-> <<>>]}
    \cup {[t |-> "string", s |-> T] : T \in TokenValues}

\* A response body: bytes that are no JSON text, no bytes at all, the JSON
\* texts null and 123, or a JSON object with or without a "value" member and
\* with or without another member.
NoBody == [kind |-> "empty", value |-> [t |-> "absent", s |-> <<>>], extra |-> FALSE]

Bodies ==
    {[kind |-> k, value |-> [t |-> "absent", s |-> <<>>], extra |-> FALSE] :
        k \in {"garbage", "empty", "null", "number"}}
    \cup {[kind |-> "object", value |-> m, extra |-> x] :
            m \in JsonMembers, x \in BOOLEAN}

Statuses == {StatusOK, 201, 401}

\* What the token endpoint does with a request: it cannot be reached, or it
\* answers with a status and a body.  The answer is the same for every
\* request (a deterministic endpoint); it is fixed when the first request
\* reaches out for the endpoint.
Unreachable == [ok |-> FALSE, status |-> 0, body |-> NoBody]
NotContacted == [ok |-> FALSE, status |-> -1, body |-> NoBody]

Endpoints ==
    {Unreachable}
    \cup {[ok |-> TRUE, status |-> s, body |-> b] : s \in Statuses, b \in Bodies}

ServerURLs == {<<>>, <<"https", ":", "/", "/", "registry.example.com">>}

Credentials ==
    {[ServerURL |-> s, Username |-> <<"testuser">>, Secret |-> <<"testpassword">>] :
        s \in ServerURLs}

------------------------------------------------------------------------------
VARIABLES
    env,              \* the process environment
    endpoint,         \* the token endpoint behind the request URL
    LogFile,          \* GitHubActionsOidc.LogFile: "nil" or "open"
    pc,               \* where Get stands: "idle" when no Get is running
    oidcRequestURL,   \* Get's local
    oidcRequestToken, \* Get's local
    req,              \* Get's local: the request built by http.NewRequest
    resp,             \* Get's local: the response of http.DefaultClient.Do
    bodyOpen,         \* TRUE while a response body is held open
    call,             \* what the running Get has done so far
    last,             \* the operation that returned last, and what it returned
    prevGet           \* what the Get before it returned

vars == <<env, endpoint, LogFile, pc, oidcRequestURL, oidcRequestToken, req,
          resp, bodyOpen, call, last, prevGet>>

NoReq == [url |-> <<>>, Authorization |-> <<>>, UserAgent |-> ""]
NoResp == [present |-> FALSE, StatusCode |-> 0, Body |-> NoBody]
NoCall == [requested |-> FALSE, url |-> <<>>, responded |-> FALSE,
           closes |-> 0, logFail |-> FALSE]
NoGet == [present |-> FALSE, username |-> "", secret |-> <<>>, err |-> "nil",
          requested |-> FALSE, logFail |-> FALSE]
NoOp == [op |-> "none", username |-> "", secret |-> <<>>, err |-> "nil",
         list |-> {}, requested |-> FALSE, url |-> <<>>, responded |-> FALSE,
         closes |-> 0, bodyOpen |-> FALSE, logFail |-> FALSE]

------------------------------------------------------------------------------
(* Library functions the helper calls *)

\* os.Getenv: the value of the variable, "" when it is unset.
Getenv(name) == IF env[name].set THEN env[name].val ELSE <<>>

\* strings.Contains(s, "?")
ContainsQuestionMark(s) == "?" \in Range(s)

\* url.QueryEscape of one symbol: unreserved bytes stay, a space becomes
\* '+', every other byte becomes %XX.
EscapeSymbol(c) ==
    CASE c \in UnreservedRuns -> c
      [] c = " " -> "+"
      [] c = "&" -> "%26"
      [] c = "?" -> "%3F"
      [] c = ":" -> "%3A"
      [] c = "/" -> "%2F"
      [] OTHER -> "%XX"

QueryEscape(s) == [i \in 1..Len(s) |-> EscapeSymbol(s[i])]

\* http.NewRequest fails when url.Parse does: here, on a control byte.
NewRequestFails(u) == CtlByte \in Range(u)

\* The URLs http.DefaultClient.Do has a transport for.
HasHttpScheme(u) == Len(u) > 0 /\ u[1] = HttpBase
Answers == IF endpoint = NotContacted THEN Endpoints ELSE {endpoint}

\* Decode with the field tagged with a name the endpoint never sends: the
\* member "value" is skipped like any unknown member.
Decode_wrongTag(body) ==
    CASE body.kind \in {"garbage", "empty", "number"} -> [err |-> TRUE, Value |-> <<>>]
      [] OTHER -> [err |-> FALSE, Value |-> <<>>]

\* json.NewDecoder(resp.Body).Decode(&respBody), respBody a struct with the
\* one string field Value tagged "value".
Decode(body) ==
    CASE body.kind = "garbage" -> [err |-> TRUE, Value |-> <<>>]
      [] body.kind = "empty" -> [err |-> TRUE, Value |-> <<>>]
      [] body.kind = "null" -> [err |-> FALSE, Value |-> <<>>]
      [] body.kind = "number" -> [err |-> TRUE, Value |-> <<>>]
      [] OTHER ->
           CASE body.value.t = "string" -> [err |-> FALSE, Value |-> body.value.s]
             [] body.value.t = "number" -> [err |-> TRUE, Value |-> <<>>]
             [] OTHER -> [err |-> FALSE, Value |-> <<>>]

\* (*os.File).WriteString: fails on a nil file, and may fail on an open one.
WriteOutcomes == IF LogFile = "nil" THEN {FALSE} ELSE {TRUE, FALSE}

------------------------------------------------------------------------------
(* The helper *)

\* A log write whose result is discarded: the call only remembers, for the
\* record, that a write failed.
Logged(c, ok) == [c EXCEPT !.logFail = @ \/ ~ok]

\* Line 39 with && for ||.
MissingEnv_and(url, token) == url = <<>> /\ token = <<>>

\* The condition of line 39.
MissingEnv(url, token) == url = <<>> \/ token = <<>>

\* Lines 47-50 without the check for an existing query string.
Separator_always(url) == "?"

\* Lines 47-50.
Separator(url) == IF ContainsQuestionMark(url) THEN "&" ELSE "?"

\* Line 71 testing for an error status only.
StatusNotOK_errorsOnly(status) == status >= 400

\* The condition of line 71.
StatusNotOK(status) == status # StatusOK

\* A decode failure returning the identity along with the error.
FailureReturn_partial(cause) ==
    [username |-> IF cause = "decode" THEN "github_actions" ELSE "",
     secret |-> <<>>, err |-> "CredentialsNotFound"]

\* return "", "", credentials.NewErrCredentialsNotFound(), reached for one
\* of the causes "env", "request", "network", "status", "decode".
FailureReturn(cause) ==
    [username |-> "", secret |-> <<>>, err |-> "CredentialsNotFound"]

\* return "github_actions", respBody.Value, nil
SuccessReturn(value) ==
    [username |-> "github_actions", secret |-> value, err |-> "nil"]

\* What a returned Get leaves for the comparison with the next one.
AsGet(l) ==
    [present |-> TRUE, username |-> l.username, secret |-> l.secret,
     err |-> l.err, requested |-> l.requested, logFail |-> l.logFail]

Roll == prevGet' = IF last.op = "Get" THEN AsGet(last) ELSE prevGet

\* Get returns `out`; `deferred` says whether the deferred resp.Body.Close()
\* of line 69 has been registered and so runs now.
Finish(out, c, deferred) ==
    /\ pc' = "idle"
    /\ oidcRequestURL' = <<>>
    /\ oidcRequestToken' = <<>>
    /\ req' = NoReq
    /\ resp' = NoResp
    /\ call' = NoCall
    /\ bodyOpen' = IF deferred THEN FALSE ELSE bodyOpen
    /\ last' = [op |-> "Get", username |-> out.username, secret |-> out.secret,
                err |-> out.err, list |-> {}, requested |-> c.requested,
                url |-> c.url, responded |-> c.responded,
                closes |-> c.closes + (IF deferred THEN 1 ELSE 0),
                bodyOpen |-> IF deferred THEN FALSE ELSE bodyOpen,
                logFail |-> c.logFail]

Init ==
    /\ env \in Environments
    /\ endpoint = NotContacted
    /\ LogFile \in {"nil", "open"}
    /\ pc = "idle"
    /\ oidcRequestURL = <<>>
    /\ oidcRequestToken = <<>>
    /\ req = NoReq
    /\ resp = NoResp
    /\ bodyOpen = FALSE
    /\ call = NoCall
    /\ last = NoOp
    /\ prevGet = NoGet

\* Add: logs and returns nil.
Add(creds, ok) ==
    /\ pc = "idle"
    /\ Roll
    /\ last' = [NoOp EXCEPT !.op = "Add", !.logFail = ~ok, !.bodyOpen = bodyOpen]
    /\ UNCHANGED <<env, endpoint, LogFile, pc, oidcRequestURL, oidcRequestToken,
                   req, resp, bodyOpen, call>>

\* Delete erasing the request token from the environment.
Delete_unsetenv(serverURL, ok) ==
    /\ pc = "idle"
    /\ Roll
    /\ last' = [NoOp EXCEPT !.op = "Delete", !.logFail = ~ok, !.bodyOpen = bodyOpen]
    /\ env' = [env EXCEPT !["ACTIONS_ID_TOKEN_REQUEST_TOKEN"] = Unset]
    /\ UNCHANGED <<endpoint, LogFile, pc, oidcRequestURL, oidcRequestToken,
                   req, resp, bodyOpen, call>>

\* Delete: logs and returns nil.
Delete(serverURL, ok) ==
    /\ pc = "idle"
    /\ Roll
    /\ last' = [NoOp EXCEPT !.op = "Delete", !.logFail = ~ok, !.bodyOpen = bodyOpen]
    /\ UNCHANGED <<env, endpoint, LogFile, pc, oidcRequestURL, oidcRequestToken,
                   req, resp, bodyOpen, call>>

\* List: logs and returns a nil map and nil.
List(ok) ==
    /\ pc = "idle"
    /\ Roll
    /\ last' = [NoOp EXCEPT !.op = "List", !.list = {}, !.logFail = ~ok,
                            !.bodyOpen = bodyOpen]
    /\ UNCHANGED <<env, endpoint, LogFile, pc, oidcRequestURL, oidcRequestToken,
                   req, resp, bodyOpen, call>>

\* Get, lines 34-42: logs, reads the two required variables, and returns
\* not-found (after a second log line) when one of them is empty.
GetEnv(serverURL, ok1) ==
    /\ pc = "idle"
    /\ Roll
    /\ LET url == Getenv("ACTIONS_ID_TOKEN_REQUEST_URL")
           token == Getenv("ACTIONS_ID_TOKEN_REQUEST_TOKEN")
           c == Logged(NoCall, ok1)
       IN  IF MissingEnv(url, token)
           THEN \E ok2 \in WriteOutcomes :
                    Finish(FailureReturn("env"), Logged(c, ok2), FALSE)
           ELSE /\ pc' = "audience"
                /\ oidcRequestURL' = url
                /\ oidcRequestToken' = token
                /\ call' = c
                /\ last' = NoOp
                /\ UNCHANGED <<req, resp, bodyOpen>>
    /\ UNCHANGED <<env, endpoint, LogFile>>

\* Get, lines 44-53: appends the audience, when there is one.
GetAudience(ok) ==
    /\ pc = "audience"
    /\ LET oidcAudience == Getenv("ACTIONS_ID_TOKEN_REQUEST_AUDIENCE")
       IN  IF oidcAudience # <<>>
           THEN /\ oidcRequestURL' =
                      oidcRequestURL \o <<Separator(oidcRequestURL)>>
                                     \o <<"audience=">> \o QueryEscape(oidcAudience)
                /\ call' = Logged(call, ok)
           ELSE UNCHANGED <<oidcRequestURL, call>>
    /\ pc' = "request"
    /\ UNCHANGED <<env, endpoint, LogFile, oidcRequestToken, req, resp, bodyOpen,
                   last, prevGet>>

\* Get, lines 56-62: builds the request and sets its two headers.
GetNewRequest(ok) ==
    /\ pc = "request"
    /\ IF NewRequestFails(oidcRequestURL)
       THEN Finish(FailureReturn("request"), Logged(call, ok), FALSE)
       ELSE /\ req' = [url |-> oidcRequestURL,
                       Authorization |-> <<"Bearer ">> \o oidcRequestToken,
                       UserAgent |-> "Docker-Credential-Helper-GitHubActionsOIDC"]
            /\ pc' = "do"
            /\ UNCHANGED <<oidcRequestURL, oidcRequestToken, resp, bodyOpen, call, last>>
    /\ UNCHANGED <<env, endpoint, LogFile, prevGet>>

\* Get, lines 64-69: sends the request; it fails before anything is sent when
\* the URL has no http scheme, and fails when the endpoint cannot be reached.
\* On a response, the release of its body is deferred.
GetDo(ok) ==
    /\ pc = "do"
    /\ LET c == [call EXCEPT !.requested = TRUE, !.url = req.url]
       IN  IF ~HasHttpScheme(req.url)
           THEN /\ Finish(FailureReturn("network"), Logged(c, ok), FALSE)
                /\ UNCHANGED endpoint
           ELSE \E e \in Answers :
                /\ endpoint' = e
                /\ IF ~e.ok
                   THEN Finish(FailureReturn("network"), Logged(c, ok), FALSE)
                   ELSE /\ resp' = [present |-> TRUE, StatusCode |-> e.status,
                                    Body |-> e.body]
                        /\ bodyOpen' = TRUE
                        /\ call' = [c EXCEPT !.responded = TRUE]
                        /\ pc' = "status"
                        /\ UNCHANGED <<oidcRequestURL, oidcRequestToken, req, last>>
    /\ UNCHANGED <<env, LogFile, prevGet>>

\* Lines 71-74 with the body released after the status check instead of
\* by a deferred call: the non-200 return keeps it open.
GetStatus_noClose(ok) ==
    /\ pc = "status"
    /\ IF StatusNotOK(resp.StatusCode)
       THEN Finish(FailureReturn("status"), Logged(call, ok), FALSE)
       ELSE /\ pc' = "decode"
            /\ UNCHANGED <<oidcRequestURL, oidcRequestToken, req, resp, bodyOpen,
                           call, last>>
    /\ UNCHANGED <<env, endpoint, LogFile, prevGet>>

\* Get, lines 71-74: anything but 200 is not-found.
GetStatus(ok) ==
    /\ pc = "status"
    /\ IF StatusNotOK(resp.StatusCode)
       THEN Finish(FailureReturn("status"), Logged(call, ok), TRUE)
       ELSE /\ pc' = "decode"
            /\ UNCHANGED <<oidcRequestURL, oidcRequestToken, req, resp, bodyOpen,
                           call, last>>
    /\ UNCHANGED <<env, endpoint, LogFile, prevGet>>

\* Lines 76-86 with the request token dropped from the environment once a
\* token has been issued for it.
GetDecode_consume(ok) ==
    /\ pc = "decode"
    /\ LET respBody == Decode(resp.Body)
       IN  IF respBody.err
           THEN /\ Finish(FailureReturn("decode"), Logged(call, ok), TRUE)
                /\ UNCHANGED env
           ELSE /\ Finish(SuccessReturn(respBody.Value), Logged(call, ok), TRUE)
                /\ env' = [env EXCEPT !["ACTIONS_ID_TOKEN_REQUEST_TOKEN"] = Unset]
    /\ UNCHANGED <<endpoint, LogFile, prevGet>>

\* Lines 76-86 with the error of the last log write returned to the caller.
GetDecode_logError(ok) ==
    /\ pc = "decode"
    /\ LET respBody == Decode(resp.Body)
       IN  IF respBody.err \/ ~ok
           THEN Finish(FailureReturn("decode"), Logged(call, ok), TRUE)
           ELSE Finish(SuccessReturn(respBody.Value), Logged(call, ok), TRUE)
    /\ UNCHANGED <<env, endpoint, LogFile, prevGet>>

\* Get, lines 76-86: decodes the body and returns the token.
GetDecode(ok) ==
    /\ pc = "decode"
    /\ LET respBody == Decode(resp.Body)
       IN  IF respBody.err
           THEN Finish(FailureReturn("decode"), Logged(call, ok), TRUE)
           ELSE Finish(SuccessReturn(respBody.Value), Logged(call, ok), TRUE)
    /\ UNCHANGED <<env, endpoint, LogFile, prevGet>>

Next ==
    \/ \E creds \in Credentials, ok \in WriteOutcomes : Add(creds, ok)
    \/ \E serverURL \in ServerURLs, ok \in WriteOutcomes : Delete(serverURL, ok)
    \/ \E ok \in WriteOutcomes : List(ok)
    \/ \E serverURL \in ServerURLs, ok \in WriteOutcomes : GetEnv(serverURL, ok)
    \/ \E ok \in WriteOutcomes : GetAudience(ok)
    \/ \E ok \in WriteOutcomes : GetNewRequest(ok)
    \/ \E ok \in WriteOutcomes : GetDo(ok)
    \/ \E ok \in WriteOutcomes : GetStatus(ok)
    \/ \E ok \in WriteOutcomes : GetDecode(ok)

Spec == Init /\ [][Next]_vars

------------------------------------------------------------------------------
(* The properties *)

RequestURL == Getenv("ACTIONS_ID_TOKEN_REQUEST_URL")
RequestToken == Getenv("ACTIONS_ID_TOKEN_REQUEST_TOKEN")
Audience == Getenv("ACTIONS_ID_TOKEN_REQUEST_AUDIENCE")

NotFound(l) == l.username = "" /\ l.secret = <<>> /\ l.err = "CredentialsNotFound"

\* The endpoint answered the last Get with status 200.
Answered200 == last.op = "Get" /\ last.responded /\ endpoint.status = StatusOK

\* C1: a Get with the request URL or the request token empty or unset returns
\* CredentialsNotFound, and never gets as far as building or sending a request.
C1_MissingEnvNotFound ==
    (RequestURL = <<>> \/ RequestToken = <<>>) =>
        /\ pc = "idle"
        /\ ~call.requested
        /\ last.op = "Get" => (NotFound(last) /\ ~last.requested)

C1_Witness ==
    /\ last.op = "Get"
    /\ RequestURL # <<>>
    /\ ~env["ACTIONS_ID_TOKEN_REQUEST_TOKEN"].set
    /\ Audience # <<>>
    /\ NotFound(last)
    /\ ~last.requested

\* C2: the URL of the request a Get sends is the base URL when there is no
\* audience; otherwise it is the base URL, then "?" if the base holds no "?"
\* and "&" if it does, then "audience=" and the audience with every reserved
\* byte escaped.
ReservedSymbols == {" ", "&", "?", ":", "/"}

C2_RequestURL ==
    (last.op = "Get" /\ last.requested) =>
        IF Audience = <<>>
        THEN last.url = RequestURL
        ELSE LET n == Len(RequestURL)
                 escaped == SubSeq(last.url, n + 3, Len(last.url))
             IN  /\ Len(last.url) = n + 2 + Len(Audience)
                 /\ SubSeq(last.url, 1, n) = RequestURL
                 /\ last.url[n + 1] = (IF "?" \in Range(RequestURL) THEN "&" ELSE "?")
                 /\ last.url[n + 2] = "audience="
                 /\ escaped = QueryEscape(Audience)
                 /\ Range(escaped) \cap ReservedSymbols = {}

C2_Witness ==
    /\ last.op = "Get"
    /\ last.requested
    /\ RequestURL = <<HttpBase, "?">>
    /\ Audience = <<"https", ":", "/", "/", "registry.example.com">>
    /\ last.url = <<HttpBase, "?", "&", "audience=",
                    "https", "%3A", "%2F", "%2F", "registry.example.com">>

\* C3: when the endpoint answers 200 with the body {"value": T}, Get returns
\* ("github_actions", T) and no error.
C3_SuccessPair ==
    (/\ Answered200
     /\ endpoint.body.kind = "object"
     /\ endpoint.body.value.t = "string"
     /\ ~endpoint.body.extra) =>
        /\ last.username = "github_actions"
        /\ last.secret = endpoint.body.value.s
        /\ last.err = "nil"

C3_Witness ==
    /\ Answered200
    /\ endpoint.body = [kind |-> "object",
                        value |-> [t |-> "string", s |-> <<"eyJ.test.token">>],
                        extra |-> FALSE]
    /\ last.secret = <<"eyJ.test.token">>
    /\ last.err = "nil"

\* C4: when the endpoint answers with a status other than 200, Get returns
\* CredentialsNotFound whatever the body is, and the body is never decoded.
C4_Non200NotFound ==
    /\ (last.op = "Get" /\ last.responded /\ endpoint.status # StatusOK) =>
           NotFound(last)
    /\ pc = "decode" => resp.StatusCode = StatusOK

C4_Witness ==
    /\ last.op = "Get"
    /\ last.responded
    /\ endpoint.status = 201
    /\ endpoint.body.kind = "object"
    /\ endpoint.body.value = [t |-> "string", s |-> <<"eyJ.test.token">>]
    /\ NotFound(last)

\* C5: a 200 answer whose body is no JSON, or is JSON other than an object
\* with a string member "value", makes Get return CredentialsNotFound.
SchemaMismatch(body) == body.kind # "object" \/ body.value.t # "string"

C5_MismatchNotFound ==
    (Answered200 /\ SchemaMismatch(endpoint.body)) => NotFound(last)

\* C6: a Get returns either ("github_actions", a token, no error) or
\* ("", "", CredentialsNotFound), whatever made it fail.
C6_TwoShapes ==
    last.op = "Get" =>
        \/ last.username = "github_actions" /\ last.err = "nil"
        \/ NotFound(last)

C6_Witness ==
    /\ Answered200
    /\ endpoint.body.kind = "garbage"
    /\ NotFound(last)

\* C7: Add, Delete and List return no error, List returns nothing, and none
\* of them changes the environment, the endpoint, the log file handle, or
\* anything a Get works with.
StubOps == {"Add", "Delete", "List"}

C7_StubsNoEffect ==
    [][(pc = "idle" /\ pc' = "idle" /\ last'.op \in StubOps) =>
          /\ last'.err = "nil"
          /\ last'.username = "" /\ last'.secret = <<>>
          /\ last'.list = {}
          /\ UNCHANGED <<env, endpoint, LogFile, oidcRequestURL, oidcRequestToken,
                         req, resp, bodyOpen, call>>]_vars

C7_Witness ==
    /\ last.op = "List"
    /\ last.list = {}
    /\ last.err = "nil"
    /\ prevGet.present
    /\ prevGet.err = "nil"

\* C8: a Get returns what the Get before it returned (the environment and the
\* endpoint's answer being the same), whatever Add, Delete and List calls
\* came between them.
C8_SameResult ==
    (last.op = "Get" /\ prevGet.present) =>
        /\ last.username = prevGet.username
        /\ last.secret = prevGet.secret
        /\ last.err = prevGet.err

C8_Witness ==
    /\ last.op = "Get"
    /\ prevGet.present
    /\ last.err = "nil"
    /\ last.secret = <<"eyJ.test.token">>
    /\ prevGet.secret = <<"eyJ.test.token">>

\* C9: of two Gets, one with a failed log write and one without, both return
\* the same and both do or do not send the request; Add, Delete and List
\* return no error when their log write fails.
C9_LogNoInfluence ==
    /\ (last.op = "Get" /\ prevGet.present /\ prevGet.logFail # last.logFail) =>
           /\ <<last.username, last.secret, last.err>> =
                  <<prevGet.username, prevGet.secret, prevGet.err>>
           /\ last.requested = prevGet.requested
    /\ (last.op \in StubOps /\ last.logFail) => (last.err = "nil" /\ last.list = {})
    /\ (last.op = "Get" /\ last.logFail /\ last.err # "nil") => NotFound(last)

C9_Witness ==
    /\ last.op = "Get"
    /\ prevGet.present
    /\ ~prevGet.logFail
    /\ last.logFail
    /\ last.err = "nil"
    /\ last.secret = <<"eyJ.test.token">>

\* C10: a Get that obtained a response has released its body exactly once
\* when it returns; a Get that obtained none releases nothing; no body is
\* open while no Get runs.
C10_BodyReleased ==
    /\ pc = "idle" => ~bodyOpen
    /\ last.op = "Get" =>
           /\ ~last.bodyOpen
           /\ last.closes = (IF last.responded THEN 1 ELSE 0)
    /\ call.closes = 0

C10_Witness ==
    /\ last.op = "Get"
    /\ last.responded
    /\ endpoint.status = 401
    /\ last.closes = 1
    /\ ~last.bodyOpen

====
